---- MODULE Spec2Model ----
(***************************************************************************)
(* Model of calculadora_irrf_2025_2026_corrigida.py: the INSS contribution *)
(* table, the progressive income-tax table, the 2026 reform rebate and the *)
(* four scenario calculators (2025/2026 x Completa/Simplificada).          *)
(*                                                                         *)
(* Amounts are exact decimal numbers.  An amount is a 4-tuple <<w,a,b,c>>  *)
(* standing for  w + a/10^4 + b/10^8 + c/10^12  reais, with w any integer  *)
(* and a, b, c in 0..9999 (TLC integers are 32 bits wide, one integer      *)
(* cannot hold 10^5 reais at 10^-12 precision).  Every product the program *)
(* forms on the inputs drawn below is representable exactly at 10^-12, so  *)
(* the operators compute the real-number value of each Python expression;  *)
(* the binary rounding of Python floats is not modelled.                   *)
(***************************************************************************)
EXTENDS Integers, Sequences, FiniteSets, TLC

\* ------------------------------------------------------------------------
\* Decimal arithmetic
\* ------------------------------------------------------------------------

\* one limb holds four decimal digits
Limb == 10000

\* carry propagation: low limbs back into 0..Limb-1, floor carries upward
Norm(t) ==
    LET c  == t[4]
        b  == t[3] + (c \div Limb)
        a  == t[2] + (b \div Limb)
        w  == t[1] + (a \div Limb)
    IN  <<w, a % Limb, b % Limb, c % Limb>>

\* the amount  reais + frac/10^4  (Dec(1412, 0) is 1412.00, Dec(2666, 6800) is 2666.68)
Dec(reais, frac) == <<reais, frac, 0, 0>>

\* an amount given in whole cents (possibly negative)
Cents(n) == <<n \div 100, (n % 100) * 100, 0, 0>>

Zero == <<0, 0, 0, 0>>

Add(x, y) == Norm(<<x[1] + y[1], x[2] + y[2], x[3] + y[3], x[4] + y[4]>>)

Sub(x, y) == Norm(<<x[1] - y[1], x[2] - y[2], x[3] - y[3], x[4] - y[4]>>)

\* x < y
Lt(x, y) ==
    \/ x[1] < y[1]
    \/ x[1] = y[1] /\ x[2] < y[2]
    \/ x[1] = y[1] /\ x[2] = y[2] /\ x[3] < y[3]
    \/ x[1] = y[1] /\ x[2] = y[2] /\ x[3] = y[3] /\ x[4] < y[4]

\* x <= y
Leq(x, y) == x = y \/ Lt(x, y)

\* Python min(x, y) and max(x, y)
Min(x, y) == IF Lt(y, x) THEN y ELSE x

Max(x, y) == IF Lt(x, y) THEN y ELSE x

\* x * k for an integer k >= 0
MulInt(x, k) == Norm(<<x[1] * k, x[2] * k, x[3] * k, x[4] * k>>)

\* x / d for an integer 0 < d <= 1000, by long division from the top limb
DivInt(x, d) ==
    LET qw == x[1] \div d
        na == (x[1] % d) * Limb + x[2]
        nb == (na % d) * Limb + x[3]
        nc == (nb % d) * Limb + x[4]
    IN  <<qw, na \div d, nb \div d, nc \div d>>

\* x * (n / d): a multiplication by a decimal rate, 0.075 being 75/1000 and
\* 0.156445 being 156445/1000000
Times(x, n, d) ==
    IF d <= 1000
    THEN DivInt(MulInt(x, n), d)
    ELSE DivInt(DivInt(MulInt(x, n), 1000), d \div 1000)

\* an amount rounded to whole cents (half a cent rounds up), as an integer
ToCents(x) == x[1] * 100 + (x[2] \div 100) + (IF x[2] % 100 >= 50 THEN 1 ELSE 0)

\* ------------------------------------------------------------------------
\* Bracket tax engine
\* ------------------------------------------------------------------------

\* calcular_inss with the ceiling branch accumulating on the salary itself
calcular_inss_semteto(salario) ==
    IF Leq(salario, Dec(1412, 0))
    THEN Times(salario, 75, 1000)
    ELSE IF Leq(salario, Dec(2666, 6800))
    THEN Add(Times(Dec(1412, 0), 75, 1000),
             Times(Sub(salario, Dec(1412, 0)), 90, 1000))
    ELSE IF Leq(salario, Dec(4000, 300))
    THEN Add(Add(Times(Dec(1412, 0), 75, 1000),
                 Times(Sub(Dec(2666, 6800), Dec(1412, 0)), 90, 1000)),
             Times(Sub(salario, Dec(2666, 6800)), 120, 1000))
    ELSE Add(Add(Add(Times(Dec(1412, 0), 75, 1000),
                     Times(Sub(Dec(2666, 6800), Dec(1412, 0)), 90, 1000)),
                 Times(Sub(Dec(4000, 300), Dec(2666, 6800)), 120, 1000)),
             Times(Sub(salario, Dec(4000, 300)), 140, 1000))

calcular_inss(salario) ==
    IF Leq(salario, Dec(1412, 0))
    THEN Times(salario, 75, 1000)
    ELSE IF Leq(salario, Dec(2666, 6800))
    THEN LET inss1 == Times(Dec(1412, 0), 75, 1000)
             inss2 == Times(Sub(salario, Dec(1412, 0)), 90, 1000)
         IN  Add(inss1, inss2)
    ELSE IF Leq(salario, Dec(4000, 300))
    THEN LET inss1 == Times(Dec(1412, 0), 75, 1000)
             inss2 == Times(Sub(Dec(2666, 6800), Dec(1412, 0)), 90, 1000)
             inss3 == Times(Sub(salario, Dec(2666, 6800)), 120, 1000)
         IN  Add(Add(inss1, inss2), inss3)
    ELSE IF Leq(salario, Dec(7786, 200))
    THEN LET inss1 == Times(Dec(1412, 0), 75, 1000)
             inss2 == Times(Sub(Dec(2666, 6800), Dec(1412, 0)), 90, 1000)
             inss3 == Times(Sub(Dec(4000, 300), Dec(2666, 6800)), 120, 1000)
             inss4 == Times(Sub(salario, Dec(4000, 300)), 140, 1000)
         IN  Add(Add(Add(inss1, inss2), inss3), inss4)
    ELSE LET inss1 == Times(Dec(1412, 0), 75, 1000)
             inss2 == Times(Sub(Dec(2666, 6800), Dec(1412, 0)), 90, 1000)
             inss3 == Times(Sub(Dec(4000, 300), Dec(2666, 6800)), 120, 1000)
             inss4 == Times(Sub(Dec(7786, 200), Dec(4000, 300)), 140, 1000)
         IN  Add(Add(Add(inss1, inss2), inss3), inss4)

\* calcular_ir_progressivo without the exempt first bracket
calcular_ir_progressivo_semisento(base) ==
    IF Leq(base, Dec(2826, 6500))
    THEN Times(Sub(base, Dec(2259, 2000)), 75, 1000)
    ELSE IF Leq(base, Dec(3751, 500))
    THEN Add(Times(Sub(Dec(2826, 6500), Dec(2259, 2000)), 75, 1000),
             Times(Sub(base, Dec(2826, 6500)), 150, 1000))
    ELSE IF Leq(base, Dec(4664, 6800))
    THEN Add(Add(Times(Sub(Dec(2826, 6500), Dec(2259, 2000)), 75, 1000),
                 Times(Sub(Dec(3751, 500), Dec(2826, 6500)), 150, 1000)),
             Times(Sub(base, Dec(3751, 500)), 225, 1000))
    ELSE Add(Add(Add(Times(Sub(Dec(2826, 6500), Dec(2259, 2000)), 75, 1000),
                     Times(Sub(Dec(3751, 500), Dec(2826, 6500)), 150, 1000)),
                 Times(Sub(Dec(4664, 6800), Dec(3751, 500)), 225, 1000)),
             Times(Sub(base, Dec(4664, 6800)), 275, 1000))

\* calcular_ir_progressivo whose top bracket forgets the tax of the 22.5% bracket
calcular_ir_progressivo_semfaixa(base) ==
    IF Leq(base, Dec(2259, 2000))
    THEN Zero
    ELSE IF Leq(base, Dec(2826, 6500))
    THEN Times(Sub(base, Dec(2259, 2000)), 75, 1000)
    ELSE IF Leq(base, Dec(3751, 500))
    THEN Add(Times(Sub(Dec(2826, 6500), Dec(2259, 2000)), 75, 1000),
             Times(Sub(base, Dec(2826, 6500)), 150, 1000))
    ELSE IF Leq(base, Dec(4664, 6800))
    THEN Add(Add(Times(Sub(Dec(2826, 6500), Dec(2259, 2000)), 75, 1000),
                 Times(Sub(Dec(3751, 500), Dec(2826, 6500)), 150, 1000)),
             Times(Sub(base, Dec(3751, 500)), 225, 1000))
    ELSE Add(Add(Times(Sub(Dec(2826, 6500), Dec(2259, 2000)), 75, 1000),
                 Times(Sub(Dec(3751, 500), Dec(2826, 6500)), 150, 1000)),
             Times(Sub(base, Dec(4664, 6800)), 275, 1000))

calcular_ir_progressivo(base) ==
    IF Leq(base, Dec(2259, 2000))
    THEN Zero
    ELSE IF Leq(base, Dec(2826, 6500))
    THEN Times(Sub(base, Dec(2259, 2000)), 75, 1000)
    ELSE IF Leq(base, Dec(3751, 500))
    THEN Add(Times(Sub(Dec(2826, 6500), Dec(2259, 2000)), 75, 1000),
             Times(Sub(base, Dec(2826, 6500)), 150, 1000))
    ELSE IF Leq(base, Dec(4664, 6800))
    THEN Add(Add(Times(Sub(Dec(2826, 6500), Dec(2259, 2000)), 75, 1000),
                 Times(Sub(Dec(3751, 500), Dec(2826, 6500)), 150, 1000)),
             Times(Sub(base, Dec(3751, 500)), 225, 1000))
    ELSE Add(Add(Add(Times(Sub(Dec(2826, 6500), Dec(2259, 2000)), 75, 1000),
                     Times(Sub(Dec(3751, 500), Dec(2826, 6500)), 150, 1000)),
                 Times(Sub(Dec(4664, 6800), Dec(3751, 500)), 225, 1000)),
             Times(Sub(base, Dec(4664, 6800)), 275, 1000))

\* ------------------------------------------------------------------------
\* Reform adjustment
\* ------------------------------------------------------------------------

\* the rebate with the fixed amount not limited to the tax at or below 5000.00
calcular_reducao_reforma_2026_semlimite(base, ir_calculado) ==
    IF Leq(base, Dec(5000, 0))
    THEN Dec(312, 8900)
    ELSE IF Leq(base, Dec(7000, 0))
    THEN Min(Max(Zero, Sub(Dec(1095, 1100), Times(base, 156445, 1000000))),
             ir_calculado)
    ELSE Zero

\* the rebate with the phase-out coefficient 0.156545
calcular_reducao_reforma_2026_coef(base, ir_calculado) ==
    IF Leq(base, Dec(5000, 0))
    THEN Min(Dec(312, 8900), ir_calculado)
    ELSE IF Leq(base, Dec(7000, 0))
    THEN Min(Max(Zero, Sub(Dec(1095, 1100), Times(base, 156545, 1000000))),
             ir_calculado)
    ELSE Zero

\* the rebate without the max(0, .) of the phase-out
calcular_reducao_reforma_2026_semmax(base, ir_calculado) ==
    IF Leq(base, Dec(5000, 0))
    THEN Min(Dec(312, 8900), ir_calculado)
    ELSE IF Leq(base, Dec(7000, 0))
    THEN Min(Sub(Dec(1095, 1100), Times(base, 156445, 1000000)), ir_calculado)
    ELSE Zero

\* the rebate granted from 5000.00 upward only
calcular_reducao_reforma_2026_acima(base, ir_calculado) ==
    IF Lt(base, Dec(5000, 0))
    THEN Zero
    ELSE IF Leq(base, Dec(7000, 0))
    THEN Min(Max(Zero, Sub(Dec(1095, 1100), Times(base, 156445, 1000000))),
             ir_calculado)
    ELSE Zero

calcular_reducao_reforma_2026(base, ir_calculado) ==
    IF Leq(base, Dec(5000, 0))
    THEN Min(Dec(312, 8900), ir_calculado)
    ELSE IF Leq(base, Dec(7000, 0))
    THEN LET reducao0 == Sub(Dec(1095, 1100), Times(base, 156445, 1000000))
             reducao1 == Max(Zero, reducao0)
         IN  Min(reducao1, ir_calculado)
    ELSE Zero

\* the three lines shared by both 2026 calculators: tax by the table, the
\* rebate on it, and the final tax
ir_2026(base_tributavel) ==
    LET ir_calculado == calcular_ir_progressivo(base_tributavel)
        reducao      == calcular_reducao_reforma_2026(base_tributavel, ir_calculado)
    IN  [ir_calculado |-> ir_calculado,
         reducao      |-> reducao,
         ir_final     |-> Sub(ir_calculado, reducao)]

\* ------------------------------------------------------------------------
\* Scenario calculators
\* ------------------------------------------------------------------------

calcular_ir_2025_completo(salario_bruto, contribuicao_previdencia, despesa_saude, dependentes) ==
    LET inss            == calcular_inss(salario_bruto)
        base_calculo    == Sub(Sub(salario_bruto, inss), contribuicao_previdencia)
        deducoes        == Add(despesa_saude, MulInt(Dec(189, 5900), dependentes))
        base_tributavel == Sub(base_calculo, deducoes)
        ir_devido       == calcular_ir_progressivo(base_tributavel)
    IN  [tipo            |-> "Completa",
         salario_bruto   |-> salario_bruto,
         inss            |-> inss,
         previdencia     |-> contribuicao_previdencia,
         deducoes_legais |-> deducoes,
         base_calculo    |-> base_calculo,
         base_tributavel |-> base_tributavel,
         ir_devido       |-> ir_devido,
         reducao         |-> Zero,
         ir_final        |-> ir_devido]

\* the 2025 simplified calculator without the 16754.34 ceiling
calcular_ir_2025_simplificado_semteto(salario_bruto, contribuicao_previdencia) ==
    LET inss            == calcular_inss(salario_bruto)
        base_calculo    == Sub(Sub(salario_bruto, inss), contribuicao_previdencia)
        desconto        == Times(base_calculo, 20, 100)
        base_tributavel == Sub(base_calculo, desconto)
        ir_devido       == calcular_ir_progressivo(base_tributavel)
    IN  [tipo                  |-> "Simplificada",
         salario_bruto         |-> salario_bruto,
         inss                  |-> inss,
         previdencia           |-> contribuicao_previdencia,
         desconto_simplificado |-> desconto,
         base_calculo          |-> base_calculo,
         base_tributavel       |-> base_tributavel,
         ir_devido             |-> ir_devido,
         reducao               |-> Zero,
         ir_final              |-> ir_devido]

calcular_ir_2025_simplificado(salario_bruto, contribuicao_previdencia) ==
    LET inss            == calcular_inss(salario_bruto)
        base_calculo    == Sub(Sub(salario_bruto, inss), contribuicao_previdencia)
        teto_desconto   == Dec(16754, 3400)
        desconto0       == Times(base_calculo, 20, 100)
        desconto        == IF Lt(teto_desconto, desconto0)
                           THEN teto_desconto ELSE desconto0
        base_tributavel == Sub(base_calculo, desconto)
        ir_devido       == calcular_ir_progressivo(base_tributavel)
    IN  [tipo                  |-> "Simplificada",
         salario_bruto         |-> salario_bruto,
         inss                  |-> inss,
         previdencia           |-> contribuicao_previdencia,
         desconto_simplificado |-> desconto,
         base_calculo          |-> base_calculo,
         base_tributavel       |-> base_tributavel,
         ir_devido             |-> ir_devido,
         reducao               |-> Zero,
         ir_final              |-> ir_devido]

calcular_ir_2026_completo(salario_bruto, contribuicao_previdencia, despesa_saude, dependentes) ==
    LET inss            == calcular_inss(salario_bruto)
        base_calculo    == Sub(Sub(salario_bruto, inss), contribuicao_previdencia)
        deducoes        == Add(despesa_saude, MulInt(Dec(189, 5900), dependentes))
        base_tributavel == Sub(base_calculo, deducoes)
        ir              == ir_2026(base_tributavel)
    IN  [tipo            |-> "Completa",
         salario_bruto   |-> salario_bruto,
         inss            |-> inss,
         previdencia     |-> contribuicao_previdencia,
         deducoes_legais |-> deducoes,
         base_calculo    |-> base_calculo,
         base_tributavel |-> base_tributavel,
         ir_calculado    |-> ir.ir_calculado,
         reducao         |-> ir.reducao,
         ir_final        |-> ir.ir_final]

\* the 2026 simplified calculator taxing base_calculo instead of base_tributavel
calcular_ir_2026_simplificado_sembase(salario_bruto, contribuicao_previdencia) ==
    LET inss            == calcular_inss(salario_bruto)
        base_calculo    == Sub(Sub(salario_bruto, inss), contribuicao_previdencia)
        teto_desconto   == Dec(16754, 3400)
        desconto0       == Times(base_calculo, 20, 100)
        desconto        == IF Lt(teto_desconto, desconto0)
                           THEN teto_desconto ELSE desconto0
        base_tributavel == Sub(base_calculo, desconto)
        ir              == ir_2026(base_calculo)
    IN  [tipo                  |-> "Simplificada",
         salario_bruto         |-> salario_bruto,
         inss                  |-> inss,
         previdencia           |-> contribuicao_previdencia,
         desconto_simplificado |-> desconto,
         base_calculo          |-> base_calculo,
         base_tributavel       |-> base_tributavel,
         ir_calculado          |-> ir.ir_calculado,
         reducao               |-> ir.reducao,
         ir_final              |-> ir.ir_final]

calcular_ir_2026_simplificado(salario_bruto, contribuicao_previdencia) ==
    LET inss            == calcular_inss(salario_bruto)
        base_calculo    == Sub(Sub(salario_bruto, inss), contribuicao_previdencia)
        teto_desconto   == Dec(16754, 3400)
        desconto0       == Times(base_calculo, 20, 100)
        desconto        == IF Lt(teto_desconto, desconto0)
                           THEN teto_desconto ELSE desconto0
        base_tributavel == Sub(base_calculo, desconto)
        ir              == ir_2026(base_tributavel)
    IN  [tipo                  |-> "Simplificada",
         salario_bruto         |-> salario_bruto,
         inss                  |-> inss,
         previdencia           |-> contribuicao_previdencia,
         desconto_simplificado |-> desconto,
         base_calculo          |-> base_calculo,
         base_tributavel       |-> base_tributavel,
         ir_calculado          |-> ir.ir_calculado,
         reducao               |-> ir.reducao,
         ir_final              |-> ir.ir_final]

\* ------------------------------------------------------------------------
\* Inputs
\* ------------------------------------------------------------------------

\* cents explored on each side of every table boundary
MaxDelta == 2

\* number of 250.00 steps of the salary grid given to calcular_inss
MaxGridInss == 40

\* number of 1500.00 steps of the grid of taxable bases (starting at -1500.00)
MaxGridBase == 7

\* number of 1500.00 steps of the grid of gross salaries of the calculators
MaxGridSalario == 8

\* largest number of dependents
MaxDependentes == 2

Deltas == (0 - MaxDelta) .. MaxDelta

\* salaries for calcular_inss: the four boundaries, their neighbours, a grid
SalarioSet ==
    {Cents(b + d) : b \in {141200, 266668, 400003, 778602}, d \in Deltas}
    \cup {Cents(k * 25000) : k \in 0 .. MaxGridInss}

\* taxable bases: the bracket boundaries and the rebate thresholds with their
\* neighbours, and a grid from -1500.00 upward
BaseSet ==
    {Cents(b + d) : b \in {225920, 282665, 375105, 466468, 500000, 700000},
                    d \in Deltas}
    \cup {Cents((k - 1) * 150000) : k \in 0 .. MaxGridBase}

\* taxes handed to calcular_reducao_reforma_2026 (results of the table, so >= 0)
IrSet == {Zero, Cents(10000), Cents(15644), Cents(31289), Cents(50000), Cents(200000)}

\* gross salaries for the calculators; 84680.5618 is the salary whose 20%
\* discount is exactly 16754.34 when nothing goes to the pension plan
SalarioBrutoSet ==
    {Cents(k * 150000) : k \in 0 .. MaxGridSalario}
    \cup {Cents(0 - 10000), Cents(416100), Cents(778603),
          Dec(84680, 5618), Cents(8468057), Cents(9000000)}

PrevidenciaSet == {Zero, Cents(49932), Cents(108000)}

SaudeSet == {Zero, Cents(14563), Cents(300000)}

\* ------------------------------------------------------------------------
\* State
\* ------------------------------------------------------------------------

VARIABLES
    salario, inss,                  \* calcular_inss: argument and result
    base1, base2,                   \* two taxable bases, base1 <= base2
    ir1, ir2,                       \* calcular_ir_progressivo of each base
    ir_arg, red1, red2,             \* calcular_reducao_reforma_2026(base, ir_arg)
    ref1, ref2,                     \* 2026 tax, rebate and final tax of each base
    salario_bruto, contribuicao_previdencia, despesa_saude, dependentes,
    c2025, s2025, c2026, s2026      \* the records of the four calculators

vars == <<salario, inss, base1, base2, ir1, ir2, ir_arg, red1, red2, ref1, ref2,
          salario_bruto, contribuicao_previdencia, despesa_saude, dependentes,
          c2025, s2025, c2026, s2026>>

\* a function not called yet has no value
NoValue == <<>>

NoResult == [tipo |-> "pendente"]

InssIdle == salario = NoValue /\ inss = NoValue

TabelaIdle ==
    /\ base1 = NoValue /\ base2 = NoValue
    /\ ir1 = NoValue /\ ir2 = NoValue
    /\ ir_arg = NoValue /\ red1 = NoValue /\ red2 = NoValue
    /\ ref1 = NoResult /\ ref2 = NoResult

CalcIdle ==
    /\ salario_bruto = NoValue /\ contribuicao_previdencia = NoValue
    /\ despesa_saude = NoValue /\ dependentes = 0
    /\ c2025 = NoResult /\ s2025 = NoResult
    /\ c2026 = NoResult /\ s2026 = NoResult

InitInss ==
    /\ salario \in SalarioSet
    /\ inss = NoValue
    /\ TabelaIdle /\ CalcIdle

InitTabela ==
    /\ base1 \in BaseSet
    /\ base2 \in {b \in BaseSet : Leq(base1, b)}
    /\ ir1 = NoValue /\ ir2 = NoValue
    /\ ir_arg = NoValue /\ red1 = NoValue /\ red2 = NoValue
    /\ ref1 = NoResult /\ ref2 = NoResult
    /\ InssIdle /\ CalcIdle

InitCalc ==
    /\ salario_bruto \in SalarioBrutoSet
    /\ contribuicao_previdencia \in PrevidenciaSet
    /\ despesa_saude \in SaudeSet
    /\ dependentes \in 0 .. MaxDependentes
    /\ c2025 = NoResult /\ s2025 = NoResult
    /\ c2026 = NoResult /\ s2026 = NoResult
    /\ InssIdle /\ TabelaIdle

Init == InitInss \/ InitTabela \/ InitCalc

\* ------------------------------------------------------------------------
\* Operations
\* ------------------------------------------------------------------------

Inss ==
    /\ salario # NoValue /\ inss = NoValue
    /\ inss' = calcular_inss(salario)
    /\ UNCHANGED <<salario, base1, base2, ir1, ir2, ir_arg, red1, red2, ref1, ref2,
                   salario_bruto, contribuicao_previdencia, despesa_saude,
                   dependentes, c2025, s2025, c2026, s2026>>

Progressivo ==
    /\ base1 # NoValue /\ ir1 = NoValue
    /\ ir1' = calcular_ir_progressivo(base1)
    /\ ir2' = calcular_ir_progressivo(base2)
    /\ UNCHANGED <<salario, inss, base1, base2, ir_arg, red1, red2, ref1, ref2,
                   salario_bruto, contribuicao_previdencia, despesa_saude,
                   dependentes, c2025, s2025, c2026, s2026>>

Reducao ==
    /\ base1 # NoValue /\ ir_arg = NoValue
    /\ \E ir \in IrSet :
          /\ ir_arg' = ir
          /\ red1' = calcular_reducao_reforma_2026(base1, ir)
          /\ red2' = calcular_reducao_reforma_2026(base2, ir)
    /\ UNCHANGED <<salario, inss, base1, base2, ir1, ir2, ref1, ref2,
                   salario_bruto, contribuicao_previdencia, despesa_saude,
                   dependentes, c2025, s2025, c2026, s2026>>

Reforma ==
    /\ base1 # NoValue /\ ref1 = NoResult
    /\ ref1' = ir_2026(base1)
    /\ ref2' = ir_2026(base2)
    /\ UNCHANGED <<salario, inss, base1, base2, ir1, ir2, ir_arg, red1, red2,
                   salario_bruto, contribuicao_previdencia, despesa_saude,
                   dependentes, c2025, s2025, c2026, s2026>>

Completo2025 ==
    /\ salario_bruto # NoValue /\ c2025 = NoResult
    /\ c2025' = calcular_ir_2025_completo(salario_bruto, contribuicao_previdencia,
                                          despesa_saude, dependentes)
    /\ UNCHANGED <<salario, inss, base1, base2, ir1, ir2, ir_arg, red1, red2,
                   ref1, ref2, salario_bruto, contribuicao_previdencia,
                   despesa_saude, dependentes, s2025, c2026, s2026>>

Simplificado2025 ==
    /\ salario_bruto # NoValue /\ s2025 = NoResult
    /\ s2025' = calcular_ir_2025_simplificado(salario_bruto, contribuicao_previdencia)
    /\ UNCHANGED <<salario, inss, base1, base2, ir1, ir2, ir_arg, red1, red2,
                   ref1, ref2, salario_bruto, contribuicao_previdencia,
                   despesa_saude, dependentes, c2025, c2026, s2026>>

Completo2026 ==
    /\ salario_bruto # NoValue /\ c2026 = NoResult
    /\ c2026' = calcular_ir_2026_completo(salario_bruto, contribuicao_previdencia,
                                          despesa_saude, dependentes)
    /\ UNCHANGED <<salario, inss, base1, base2, ir1, ir2, ir_arg, red1, red2,
                   ref1, ref2, salario_bruto, contribuicao_previdencia,
                   despesa_saude, dependentes, c2025, s2025, s2026>>

Simplificado2026 ==
    /\ salario_bruto # NoValue /\ s2026 = NoResult
    /\ s2026' = calcular_ir_2026_simplificado(salario_bruto, contribuicao_previdencia)
    /\ UNCHANGED <<salario, inss, base1, base2, ir1, ir2, ir_arg, red1, red2,
                   ref1, ref2, salario_bruto, contribuicao_previdencia,
                   despesa_saude, dependentes, c2025, s2025, c2026>>

Next ==
    \/ Inss
    \/ Progressivo
    \/ Reducao
    \/ Reforma
    \/ Completo2025
    \/ Simplificado2025
    \/ Completo2026
    \/ Simplificado2026

Spec == Init /\ [][Next]_vars

\* ------------------------------------------------------------------------
\* Properties
\* ------------------------------------------------------------------------

\* the INSS table as the specification states it: lower boundary, upper
\* boundary and rate (per thousand) of each tier
TabelaINSS ==
    <<[inferior |-> Zero,            superior |-> Dec(1412, 0),    aliquota |-> 75],
      [inferior |-> Dec(1412, 0),    superior |-> Dec(2666, 6800), aliquota |-> 90],
      [inferior |-> Dec(2666, 6800), superior |-> Dec(4000, 300),  aliquota |-> 120],
      [inferior |-> Dec(4000, 300),  superior |-> Dec(7786, 200),  aliquota |-> 140]>>

\* (min(s, tier-upper) - tier-lower) x tier-rate when the tier starts below s
ParcelaFaixa(s, f) ==
    IF Lt(f.inferior, s)
    THEN Times(Sub(Min(s, f.superior), f.inferior), f.aliquota, 1000)
    ELSE Zero

AcumuladoINSS(s) ==
    Add(Add(Add(ParcelaFaixa(s, TabelaINSS[1]), ParcelaFaixa(s, TabelaINSS[2])),
            ParcelaFaixa(s, TabelaINSS[3])),
        ParcelaFaixa(s, TabelaINSS[4]))

\* C1: for every salary s >= 0 calcular_inss(s) is the capped tiered
\* accumulation over the INSS table; it is 0.075 x s up to 1412.00 and stays
\* at calcular_inss(7786.02) above 7786.02.
C1_InssTabela ==
    inss # NoValue =>
        /\ inss = AcumuladoINSS(salario)
        /\ Leq(salario, Dec(1412, 0)) => inss = Times(salario, 75, 1000)
        /\ Lt(Dec(7786, 200), salario) => inss = calcular_inss(Dec(7786, 200))

\* calcular_inss has answered for a salary above the ceiling
C1_Witness == inss # NoValue /\ Lt(Dec(7786, 200), salario)

Calculado(r) == r # NoResult

\* C2: in both 2026 calculators 0 <= reducao <= ir_calculado, and
\* 0 <= 2026 ir_final <= 2025 ir_final for the same method and inputs.
C2_ReformaNaoAumenta ==
    /\ \A r \in {c2026, s2026} :
          Calculado(r) =>
              /\ Leq(Zero, r.reducao)
              /\ Leq(r.reducao, r.ir_calculado)
              /\ Leq(Zero, r.ir_final)
    /\ Calculado(c2025) /\ Calculado(c2026) => Leq(c2026.ir_final, c2025.ir_final)
    /\ Calculado(s2025) /\ Calculado(s2026) => Leq(s2026.ir_final, s2025.ir_final)

\* both years computed, the rebate being positive and smaller than the tax
C2_Witness ==
    /\ Calculado(c2025) /\ Calculado(c2026)
    /\ Lt(Zero, c2026.reducao)
    /\ Lt(c2026.reducao, c2026.ir_calculado)

\* C3: in the 2026 regime a base_tributavel <= 5000.00 gives total exemption,
\* the 2026 ir_final is 0.
C3_IsencaoTotal ==
    \A r \in {c2026, s2026} :
        Calculado(r) /\ Leq(r.base_tributavel, Dec(5000, 0)) => r.ir_final = Zero

\* C4: the 2026 and 2025 calculators differ only in the rebate: same inss,
\* base_calculo, deduction and base_tributavel, 2026 ir_calculado = 2025
\* ir_devido, 2026 ir_final = 2025 ir_final - 2026 reducao, 2025 reducao = 0.
C4_SoAReducaoDifere ==
    /\ \A r \in {c2025, s2025} : Calculado(r) => r.reducao = Zero
    /\ Calculado(c2025) /\ Calculado(c2026) =>
          /\ c2026.inss = c2025.inss
          /\ c2026.base_calculo = c2025.base_calculo
          /\ c2026.deducoes_legais = c2025.deducoes_legais
          /\ c2026.base_tributavel = c2025.base_tributavel
          /\ c2026.ir_calculado = c2025.ir_devido
          /\ c2026.ir_final = Sub(c2025.ir_final, c2026.reducao)
    /\ Calculado(s2025) /\ Calculado(s2026) =>
          /\ s2026.inss = s2025.inss
          /\ s2026.base_calculo = s2025.base_calculo
          /\ s2026.desconto_simplificado = s2025.desconto_simplificado
          /\ s2026.base_tributavel = s2025.base_tributavel
          /\ s2026.ir_calculado = s2025.ir_devido
          /\ s2026.ir_final = Sub(s2025.ir_final, s2026.reducao)

\* the four calculators have answered and the simplified 2026 one got a rebate
C4_Witness ==
    /\ Calculado(c2025) /\ Calculado(c2026)
    /\ Calculado(s2025) /\ Calculado(s2026)
    /\ Lt(Zero, s2026.reducao)

\* C5: calcular_ir_progressivo(base) = 0 for every base <= 2259.20, negative
\* bases included, so every calculator returns ir_final = 0 whenever
\* base_tributavel is at or below 2259.20.
C5_FaixaIsenta ==
    /\ ir1 # NoValue /\ Leq(base1, Dec(2259, 2000)) => ir1 = Zero
    /\ ir1 # NoValue /\ Leq(base2, Dec(2259, 2000)) => ir2 = Zero
    /\ \A r \in {c2025, s2025, c2026, s2026} :
          Calculado(r) /\ Leq(r.base_tributavel, Dec(2259, 2000)) => r.ir_final = Zero

\* both itemized calculators have answered on a negative base_tributavel
C5_Witness ==
    /\ Calculado(c2025) /\ Calculado(c2026)
    /\ Lt(c2026.base_tributavel, Zero)

\* C6: calcular_ir_progressivo is monotonically non-decreasing: b1 <= b2
\* implies calcular_ir_progressivo(b1) <= calcular_ir_progressivo(b2).
C6_ProgressivoMonotono ==
    ir1 # NoValue /\ Leq(base1, base2) => Leq(ir1, ir2)

\* the table has answered for two bases on opposite sides of 4664.68
C6_Witness ==
    /\ ir1 # NoValue
    /\ Leq(base1, Dec(4664, 6800)) /\ Lt(Dec(4664, 6800), base2)
    /\ Lt(Zero, ir1)

\* C7: in both simplified calculators the deduction is min(20% of
\* base_calculo, 16754.34) with base_calculo = gross - calcular_inss(gross) -
\* pension, and base_tributavel = base_calculo - deduction.
C7_DescontoSimplificado ==
    \A r \in {s2025, s2026} :
        Calculado(r) =>
            LET bc    == Sub(Sub(salario_bruto, calcular_inss(salario_bruto)),
                             contribuicao_previdencia)
                vinte == Times(bc, 20, 100)
                teto  == Dec(16754, 3400)
            IN  /\ r.base_calculo = bc
                /\ r.desconto_simplificado = Min(vinte, teto)
                /\ Lt(teto, vinte) => r.desconto_simplificado = teto
                /\ ~Lt(teto, vinte) => r.desconto_simplificado = vinte
                /\ r.base_tributavel = Sub(bc, r.desconto_simplificado)

\* both simplified calculators have answered with 20% above the ceiling
C7_Witness ==
    /\ Calculado(s2025) /\ Calculado(s2026)
    /\ Lt(Dec(16754, 3400), Times(s2025.base_calculo, 20, 100))
    /\ s2026.desconto_simplificado = Dec(16754, 3400)

\* the calls of calcular_reducao_reforma_2026 made by Reducao: base and result
Reducoes == {<<base1, red1>>, <<base2, red2>>}

\* max(0, 1095.11 - 0.156445 x 6000)
Formula6000 == Max(Zero, Sub(Dec(1095, 1100), Times(Dec(6000, 0), 156445, 1000000)))

\* C8 as stated: for base = 6000.00 and a computed tax at least as large as
\* the formula value, the rebate is max(0, 1095.11 - 0.156445 x 6000), which
\* is 156.41 to the cent.
C8_Reducao6000_Original ==
    ir_arg # NoValue =>
        \A c \in Reducoes :
            c[1] = Dec(6000, 0) /\ Leq(Formula6000, ir_arg) =>
                c[2] = Formula6000 /\ ToCents(c[2]) = 15641

\* C8 amended: for base = 6000.00 and a computed tax at least as large as the
\* formula value, the rebate is max(0, 1095.11 - 0.156445 x 6000), which is
\* 156.44 to the cent.
C8_Reducao6000 ==
    ir_arg # NoValue =>
        \A c \in Reducoes :
            c[1] = Dec(6000, 0) /\ Leq(Formula6000, ir_arg) =>
                c[2] = Formula6000 /\ ToCents(c[2]) = 15644

\* the rebate has been computed for base 6000.00 with a tax of at least 156.44
C8_Witness ==
    ir_arg # NoValue /\ base1 = Dec(6000, 0) /\ Leq(Cents(15644), ir_arg)

NaFaixaDeReducao(b) == Lt(Dec(5000, 0), b) /\ Leq(b, Dec(7000, 0))

\* what C9 says of the whole range: the rebate is within [0, 312.89], is
\* non-increasing in base, is 0 at 7000.00 and 0 above it
C9_Comum ==
    /\ \A c \in Reducoes :
          /\ NaFaixaDeReducao(c[1]) => Leq(Zero, c[2]) /\ Leq(c[2], Dec(312, 8900))
          /\ c[1] = Dec(7000, 0) => c[2] = Zero
          /\ Lt(Dec(7000, 0), c[1]) => c[2] = Zero
    /\ Lt(Dec(5000, 0), base1) /\ Leq(base1, base2) => Leq(red2, red1)

C10_SemDegrau ==
    Calculado(ref1) /\ Leq(base1, base2) => Leq(ref1.ir_final, ref2.ir_final)

\* the 2026 tax has been computed on both sides of the 5000.00 threshold
C10_Witness ==
    /\ Calculado(ref1)
    /\ base1 = Dec(5000, 0) /\ base2 = Dec(5000, 100)
    /\ Lt(Zero, ref1.reducao) /\ Lt(Zero, ref2.reducao)

====
